---- MODULE Spec2Model ----
(***************************************************************************)
(* Model of the video caption extraction service of app/main.py:          *)
(* source acquisition (download_gcs_to_tempfile,                          *)
(* download_tiktok_to_tempfile), the frame loop (process_video_local),    *)
(* the per-frame reduction (clean_text, is_unwanted) and the request      *)
(* handler (run_video_ocr).                                                *)
(*                                                                         *)
(* A Python str is modelled as a sequence of one-character strings.       *)
(***************************************************************************)
EXTENDS Integers, Sequences, FiniteSets, TLC

\* ------------------------------------------------------------------------
\* Bounds of the model
\* ------------------------------------------------------------------------
\* largest frame height and word y-coordinate explored by the region filter
MaxH == 41
\* largest number of frames the decoder yields in one run
MaxFrames == 62
\* largest number of imencode failures in one run
MaxEncodeFail == 2
\* largest number of paragraphs of a recognizer response (reduction harness)
MaxParas == 3

\* ------------------------------------------------------------------------
\* CONFIG (main.py:12-18)
\* ------------------------------------------------------------------------
FRAME_INTERVAL == 30

\* BOTTOM_IGNORE_RATIO = 0.25 = 2^-2, kept as the numerator over 2^2.  The
\* double 0.25, 1 - 0.25 = 0.75 and H * 0.75 (H < 2^51) are all exact.
BOTTOM_IGNORE_RATIO == 1

\* TOP_IGNORE_RATIO = 0.15 is the IEEE-754 double 0x1.3333333333333p-3, that
\* is 0x13333333333333 * 2^-55.  The 53-bit significand is kept as four
\* base-2^16 limbs, least significant first (0x3333 = 13107, 0x13 = 19).
TOP_IGNORE_RATIO == <<13107, 13107, 13107, 19>>

UNWANTED ==
  << <<"t","i","k","t","o","k">>,
     <<"t","i","k"," ","t","o","k">>,
     <<"o","r","i","g","i","n","a","l"," ","s","o","u","n","d">>,
     <<"m","u","s","i","c">> >>

MAX_VIDEO_SIZE == 512 * 1024 * 1024

\* ------------------------------------------------------------------------
\* Python str operations
\* ------------------------------------------------------------------------
\* str.lower() on one character (the capitals of the model's alphabet)
LowerChar(c) ==
  CASE c = "H" -> "h"
    [] c = "T" -> "t"
    [] c = "M" -> "m"
    [] c = "W" -> "w"
    [] c = "J" -> "j"
    [] OTHER -> c

\* str.lower()
Lower(s) == [i \in 1..Len(s) |-> LowerChar(s[i])]

\* str.replace(" ", "")
IsNotSpace(c) == c # " "
RemoveSpaces(s) == SelectSeq(s, IsNotSpace)

\* sub in s
Contains(sub, s) ==
  \E i \in 0..(Len(s) - Len(sub)) : SubSeq(s, i + 1, i + Len(sub)) = sub

\* the regex class [\w\d_] on the model's alphabet
IsWordChar(c) ==
  c \in {"a","c","d","e","g","h","i","j","k","l","m","n","o","r","s","t","u","w",
         "H","T","M","W","J","5","_"}

\* re.match(r"@[\w\d_]+", s): anchored at the start, '@' and one or more
\* word characters
MatchesUsername(s) == Len(s) >= 2 /\ s[1] = "@" /\ IsWordChar(s[2])

\* " ".join(parts)
RECURSIVE JoinSpace(_)
JoinSpace(parts) ==
  IF parts = <<>> THEN <<>>
  ELSE IF Len(parts) = 1 THEN parts[1]
  ELSE parts[1] \o <<" ">> \o JoinSpace(Tail(parts))

\* str.strip(): leading and trailing whitespace removed
RECURSIVE LStrip(_)
LStrip(s) == IF s # <<>> /\ s[1] = " " THEN LStrip(Tail(s)) ELSE s
RECURSIVE RStrip(_)
RStrip(s) ==
  IF s # <<>> /\ s[Len(s)] = " " THEN RStrip(SubSeq(s, 1, Len(s) - 1)) ELSE s
Strip(s) == RStrip(LStrip(s))

\* line.lower().replace(" ", "")  (main.py:25 and main.py:55)
Norm(s) == RemoveSpaces(Lower(s))

\* is_unwanted without the lower-casing of the line
is_unwanted_case_sensitive(text) ==
  LET text_norm == RemoveSpaces(text)
  IN  \/ \E b \in 1..Len(UNWANTED) : Contains(RemoveSpaces(UNWANTED[b]), text_norm)
      \/ MatchesUsername(text_norm)

\* ------------------------------------------------------------------------
\* is_unwanted (main.py:24-30)
\* ------------------------------------------------------------------------
is_unwanted(text) ==
  LET text_norm == RemoveSpaces(Lower(text))
  IN  \/ \E b \in 1..Len(UNWANTED) : Contains(RemoveSpaces(UNWANTED[b]), text_norm)
      \/ MatchesUsername(text_norm)

\* ------------------------------------------------------------------------
\* IEEE-754 double arithmetic of `frame_height * TOP_IGNORE_RATIO`
\* Numbers are sequences of base-2^16 limbs, least significant first, in
\* units of 2^-55.
\* ------------------------------------------------------------------------
LimbBase == 65536

RECURSIVE Pow2(_)
Pow2(n) == IF n = 0 THEN 1 ELSE 2 * Pow2(n - 1)

RECURSIVE BitLen(_)
BitLen(n) == IF n = 0 THEN 0 ELSE 1 + BitLen(n \div 2)

\* a * h + carry, limb by limb from limb i upward
RECURSIVE MulLimbs(_, _, _, _)
MulLimbs(a, h, i, carry) ==
  IF i > Len(a) THEN <<carry>>
  ELSE LET p == a[i] * h + carry
       IN  <<p % LimbBase>> \o MulLimbs(a, h, i + 1, p \div LimbBase)

\* a + carry, from limb i upward
RECURSIVE AddLimbs(_, _, _)
AddLimbs(a, i, carry) ==
  IF i > Len(a) THEN <<>>
  ELSE LET p == a[i] + carry
       IN  <<p % LimbBase>> \o AddLimbs(a, i + 1, p \div LimbBase)

\* number of significant bits of a limb sequence
RECURSIVE LimbsBitLen(_, _)
LimbsBitLen(a, i) ==
  IF i = 0 THEN 0
  ELSE IF a[i] # 0 THEN 16 * (i - 1) + BitLen(a[i])
  ELSE LimbsBitLen(a, i - 1)

\* a < b, compared from the most significant limb (equal lengths)
RECURSIVE LimbsLess(_, _, _)
LimbsLess(a, b, i) ==
  IF i = 0 THEN FALSE
  ELSE IF a[i] # b[i] THEN a[i] < b[i]
  ELSE LimbsLess(a, b, i - 1)

\* round-to-nearest-even to a 53-bit significand (the shift stays below 16
\* bits for every frame height below 2^16)
RoundDouble(p) ==
  LET n    == LimbsBitLen(p, Len(p))
      s    == IF n > 53 THEN n - 53 ELSE 0
      r    == p[1] % Pow2(s)
      half == IF s = 0 THEN 0 ELSE Pow2(s - 1)
      odd  == (p[1] \div Pow2(s)) % 2 = 1
      up   == s > 0 /\ (r > half \/ (r = half /\ odd))
      cut  == [p EXCEPT ![1] = p[1] - r]
  IN  IF up THEN AddLimbs(cut, 1, Pow2(s)) ELSE cut

\* frame_height * TOP_IGNORE_RATIO (main.py:42), in units of 2^-55
TopLimit(frame_height) == RoundDouble(MulLimbs(TOP_IGNORE_RATIO, frame_height, 1, 0))

\* the int ymin as a number in units of 2^-55 (2^55 = 2^48 * 128)
IntLimbs(y) == <<0, 0, 0, (y * 128) % LimbBase, (y * 128) \div LimbBase>>

\* ------------------------------------------------------------------------
\* Region filter: the two `continue` tests of clean_text (main.py:41-46)
\* ------------------------------------------------------------------------
Min(S) == CHOOSE m \in S : \A x \in S : m <= x

\* ymin < frame_height * TOP_IGNORE_RATIO
InTopBand(ymin, frame_height) == LimbsLess(IntLimbs(ymin), TopLimit(frame_height), 5)

\* InBottomBand with an inclusive comparison
InBottomBandInclusive(ymin, frame_height) ==
  ymin * 4 >= frame_height * (4 - BOTTOM_IGNORE_RATIO)

\* ymin > frame_height * (1 - BOTTOM_IGNORE_RATIO)
InBottomBand(ymin, frame_height) == ymin * 4 > frame_height * (4 - BOTTOM_IGNORE_RATIO)

keep(ymin, frame_height) ==
  ~InTopBand(ymin, frame_height) /\ ~InBottomBand(ymin, frame_height)

\* ------------------------------------------------------------------------
\* clean_text (main.py:33-60)
\* A recognizer response is the sequence of its paragraphs in the order the
\* pages -> blocks -> paragraphs loops visit them; a paragraph is a sequence
\* of words; a word is [text, vertices]: the joined symbol texts and the y
\* coordinates of its bounding box.
\* ------------------------------------------------------------------------
\* min(v.y for v in word.bounding_box.vertices)
WordYmin(word) == Min(word.vertices)

\* line_words with the region test applied to the paragraph as a whole: all
\* words are kept if all pass, none otherwise
line_words_whole_paragraph(para, frame_height) ==
  IF \A i \in 1..Len(para) : keep(WordYmin(para[i]), frame_height)
  THEN [i \in 1..Len(para) |-> para[i].text]
  ELSE <<>>

\* line_words of one paragraph (main.py:38-46)
RECURSIVE line_words(_, _)
line_words(para, frame_height) ==
  IF para = <<>> THEN <<>>
  ELSE LET rest == line_words(Tail(para), frame_height)
       IN  IF keep(WordYmin(Head(para)), frame_height)
           THEN <<Head(para).text>> \o rest
           ELSE rest

\* the line_text of every paragraph with a surviving word (main.py:47-48)
RECURSIVE ProducedLines(_, _)
ProducedLines(response, frame_height) ==
  IF response = <<>> THEN <<>>
  ELSE LET lw   == line_words(Head(response), frame_height)
           rest == ProducedLines(Tail(response), frame_height)
       IN  IF lw # <<>> THEN <<JoinSpace(lw)>> \o rest ELSE rest

\* the list `words` after the loops (main.py:49-50)
IsWanted(line_text) == ~is_unwanted(line_text)
SurvivingLines(response, frame_height) ==
  SelectSeq(ProducedLines(response, frame_height), IsWanted)

\* Dedupe that remembers the lines themselves, not their normalized forms
RECURSIVE DedupeRaw(_, _)
DedupeRaw(lines, seen) ==
  IF lines = <<>> THEN <<>>
  ELSE IF Head(lines) \notin seen
       THEN <<Head(lines)>> \o DedupeRaw(Tail(lines), seen \cup {Head(lines)})
       ELSE DedupeRaw(Tail(lines), seen)

\* the seen/deduped loop (main.py:52-58)
RECURSIVE Dedupe(_, _)
Dedupe(lines, seen) ==
  IF lines = <<>> THEN <<>>
  ELSE LET norm == Norm(Head(lines))
       IN  IF norm \notin seen
           THEN <<Head(lines)>> \o Dedupe(Tail(lines), seen \cup {norm})
           ELSE Dedupe(Tail(lines), seen)

clean_text(response, frame_height) ==
  JoinSpace(Dedupe(SurvivingLines(response, frame_height), {}))

\* ------------------------------------------------------------------------
\* Inputs: words, paragraphs and responses of the recognizer
\* ------------------------------------------------------------------------
\* the frame height of the reduction harness and of the pipeline's videos
FrameHeight == 40

TopY == {2, 4}
MidY == {10, 12}
LowY == {35, 38}

Word(text, vertices) == [text |-> text, vertices |-> vertices]

wAt    == <<"@">>
wJo    == <<"j","o">>
wAtJo  == <<"@","j","o">>
wHi    == <<"h","i">>
wHiCap == <<"H","i">>
wTik   == <<"T","i","k">>
wTok   == <<"t","o","k">>
wMusic == <<"M","u","s","i","c">>
wBang  == <<"!">>
wOrig  == <<"o","r","i","g","i","n","a","l">>
wSound == <<"s","o","u","n","d">>

ParagraphPool ==
  { << Word(wAtJo, MidY) >>,
    << Word(wAt, MidY), Word(wJo, MidY) >>,
    << Word(wHi, MidY), Word(wJo, MidY) >>,
    << Word(wHiCap, MidY), Word(wJo, MidY) >>,
    << Word(wTik, MidY), Word(wTok, MidY) >>,
    << Word(wHi, LowY) >>,
    << Word(wHi, MidY), Word(wMusic, LowY) >>,
    << Word(wAt, MidY), Word(wBang, MidY) >>,
    << Word(wJo, MidY), Word(wAtJo, MidY) >>,
    << Word(wAt, TopY), Word(wJo, MidY) >>,
    << Word(wOrig, MidY), Word(wSound, MidY), Word(wHi, MidY) >> }

RECURSIVE SeqsUpTo(_, _)
SeqsUpTo(S, n) ==
  IF n = 0 THEN {<<>>}
  ELSE LET shorter == SeqsUpTo(S, n - 1)
       IN  shorter \cup {Append(q, x) : q \in shorter, x \in S}

\* the responses the recognizer returns to the frame loop; <<>> stands for a
\* response whose full_text_annotation is empty (falsy)
ResponsePool ==
  { <<>>,
    << << Word(wHi, MidY), Word(wJo, MidY) >> >>,
    << << Word(wHiCap, MidY), Word(wJo, MidY) >> >>,
    << << Word(wAtJo, MidY) >>, << Word(wHi, LowY) >> >>,
    << << Word(wJo, MidY), Word(wAtJo, MidY) >> >> }

\* ------------------------------------------------------------------------
\* State of one request (run_video_ocr) and of the function harnesses
\* ------------------------------------------------------------------------
VARIABLES
  pc,            \* position of the request: "idle", "acquired" (video_path
                 \* returned), "loop" (inside while True), "done", "failed"
  source,        \* variant of video_uri: "unset", "missing", "nonstring",
                 \* "gcs" (starts with gs://), "tiktok" (any other string)
  blob_size,     \* <<>> before blob.reload() returned, then <<blob.size>>
  exists_video,  \* the local video file exists
  exists_dir,    \* the directory made by tempfile.mkdtemp() exists
  local_size,    \* byte length of the local video file
  created,       \* number of local video files created so far
  transferred,   \* bytes transferred from the cloud object so far
  removes,       \* number of os.remove(video_path) calls so far
  acquired,      \* the acquirer returned a video_path
  height,        \* process_video_local: height
  frame_num,     \* process_video_local: frame_num
  last_text,     \* process_video_local: last_text, <<>> for None, else <<text>>
  results,       \* process_video_local: results
  pos,           \* number of frames cap.read() has returned
  submitted,     \* decode positions of the frames sent to text_detection
  result_pos,    \* decode position of the frame of each element of results
  encode_failed, \* decode positions of the frames imencode failed on
  status,        \* HTTP status of the response, 0 while there is none
  cause,         \* what ended the request, "" while it runs
  arg,           \* harness: the input of the function under test
  ret,           \* harness: <<>> before the call, then <<its result>>
  cancelled,     \* the client went away or the deadline passed during the loop
  files,         \* concurrent requests: the temporary paths that exist
  rpc,           \* concurrent requests: position of each request, as pc
  rpath,         \* concurrent requests: video_path of each request, 0 = none
  rstate         \* concurrent requests: the locals frame_num, last_text and
                 \* results of each call of process_video_local

vars == << pc, source, blob_size, exists_video, exists_dir, local_size, created,
           transferred, removes, acquired, height, frame_num, last_text,
           results, pos, submitted, result_pos, encode_failed, status, cause,
           arg, ret, cancelled, files, rpc, rpath, rstate >>

fsVars   == << exists_video, exists_dir, local_size, created, transferred, removes >>
loopVars == << height, frame_num, last_text, results, pos, submitted, result_pos,
               encode_failed >>
harnessVars == << arg, ret >>
concVars == << files, rpc, rpath, rstate >>

\* largest number of requests in flight at once
NumRequests == 2
\* largest number of frames of a video of the concurrent requests
MaxConcFrames == 2

Requests == 1..NumRequests

\* the names tempfile can give out; 0 stands for "no path yet"
PathNames == 1..(NumRequests + 1)

\* the locals of process_video_local before the loop (main.py:151-153)
FreshLocals == [frame_num |-> 0, last_text |-> <<>>, results |-> <<>>]

\* blob.size is None (main.py:70)
NoneSize == -1

\* sizes the cloud object store reports
GcsSizes == { NoneSize, 1024, MAX_VIDEO_SIZE, MAX_VIDEO_SIZE + 1,
              600 * 1024 * 1024 }

\* sizes of the file yt-dlp leaves behind on success (never 0: main.py:123)
TiktokSizes == { 1024, MAX_VIDEO_SIZE, MAX_VIDEO_SIZE + 1 }

RequestIdle ==
  /\ pc = "idle"
  /\ source = "unset"
  /\ blob_size = <<>>
  /\ exists_video = FALSE
  /\ exists_dir = FALSE
  /\ local_size = 0
  /\ created = 0
  /\ transferred = 0
  /\ removes = 0
  /\ acquired = FALSE
  /\ height = 0
  /\ frame_num = 0
  /\ last_text = <<>>
  /\ results = <<>>
  /\ pos = 0
  /\ submitted = {}
  /\ result_pos = <<>>
  /\ encode_failed = {}
  /\ status = 0
  /\ cause = ""
  /\ cancelled = FALSE
  /\ files = {}
  /\ rpc = [r \in Requests |-> "idle"]
  /\ rpath = [r \in Requests |-> 0]
  /\ rstate = [r \in Requests |-> FreshLocals]

Init ==
  /\ RequestIdle
  /\ arg = <<>>
  /\ ret = <<>>

\* ------------------------------------------------------------------------
\* run_video_ocr (main.py:183-203)
\* ------------------------------------------------------------------------
\* HandlerStatus without the `except ValueError` clause
HandlerStatusNoValueError(exc_type) == 500

\* the except clauses: ValueError -> 400, any other Exception -> 500
HandlerStatus(exc_type) == IF exc_type = "ValueError" THEN 400 ELSE 500

\* Raise with the exception swallowed: the handler goes on as if a
\* video_path had been returned
RaiseSwallowed(exc_type, why) ==
  /\ pc' = "acquired"
  /\ status' = HandlerStatus(exc_type)
  /\ cause' = why

\* an exception of type exc_type reaches the try block of run_video_ocr
Raise(exc_type, why) ==
  /\ pc' = "failed"
  /\ status' = HandlerStatus(exc_type)
  /\ cause' = why

\* `if not source: return jsonify({"error": "Missing video_uri"}), 400`
MissingUri ==
  /\ pc = "idle"
  /\ source' = "missing"
  /\ pc' = "failed"
  /\ status' = 400
  /\ cause' = "InvalidReference"
  /\ UNCHANGED << blob_size, acquired >>
  /\ UNCHANGED fsVars
  /\ UNCHANGED loopVars
  /\ UNCHANGED harnessVars
  /\ UNCHANGED cancelled
  /\ UNCHANGED concVars

\* video_uri is a truthy JSON value that is no string: source.startswith
\* raises AttributeError inside the try block (main.py:192)
NonStringUri ==
  /\ pc = "idle"
  /\ source' = "nonstring"
  /\ Raise("AttributeError", "InternalError")
  /\ UNCHANGED << blob_size, acquired >>
  /\ UNCHANGED fsVars
  /\ UNCHANGED loopVars
  /\ UNCHANGED harnessVars
  /\ UNCHANGED cancelled
  /\ UNCHANGED concVars

\* ------------------------------------------------------------------------
\* download_gcs_to_tempfile (main.py:63-77), called at main.py:192-193
\* ------------------------------------------------------------------------
\* SizeTooLarge with the limit off by one
SizeTooLargeOffByOne(size) == size > MAX_VIDEO_SIZE + 1

\* `if blob.size > MAX_VIDEO_SIZE`
SizeTooLarge(size) == size > MAX_VIDEO_SIZE

\* uri_ok:    gcs_uri[5:] holds a "/" (the unpacking at main.py:65 succeeds)
\* reload_ok: blob.reload() returns
\* size:      blob.size after the reload
\* transfer:  outcome of blob.download_to_filename: "ok"; "failed_left", it
\*            raised and the partial file stays; "failed_removed", it raised
\*            and the client library deleted the file it was writing
DownloadGcs(uri_ok, reload_ok, size, transfer) ==
  /\ pc = "idle"
  /\ source' = "gcs"
  /\ UNCHANGED << exists_dir, removes >>
  /\ UNCHANGED loopVars
  /\ UNCHANGED harnessVars
  /\ UNCHANGED cancelled
  /\ UNCHANGED concVars
  /\ IF ~uri_ok
     THEN /\ Raise("ValueError", "InvalidReference")
          /\ UNCHANGED << blob_size, acquired, exists_video, local_size,
                          created, transferred >>
     ELSE IF ~reload_ok
     THEN /\ Raise("Exception", "InternalError")
          /\ UNCHANGED << blob_size, acquired, exists_video, local_size,
                          created, transferred >>
     ELSE /\ blob_size' = <<size>>
          /\ IF size = NoneSize
             THEN /\ Raise("ValueError", "SizeUnknown")
                  /\ UNCHANGED << acquired, exists_video, local_size, created,
                                  transferred >>
             ELSE IF SizeTooLarge(size)
             THEN /\ Raise("ValueError", "TooLarge")
                  /\ UNCHANGED << acquired, exists_video, local_size, created,
                                  transferred >>
             ELSE \* tempfile.NamedTemporaryFile(delete=False, suffix=".mp4")
                  /\ created' = created + 1
                  /\ IF transfer = "ok"
                     THEN /\ exists_video' = TRUE
                          /\ transferred' = size
                          /\ local_size' = size
                          /\ acquired' = TRUE
                          /\ pc' = "acquired"
                          /\ UNCHANGED << status, cause >>
                     ELSE /\ exists_video' = (transfer = "failed_left")
                          /\ transferred' = size \div 2
                          /\ local_size' = IF transfer = "failed_left"
                                           THEN size \div 2 ELSE 0
                          /\ UNCHANGED acquired
                          /\ Raise("Exception", "CloudTransferFailed")

\* ------------------------------------------------------------------------
\* download_tiktok_to_tempfile (main.py:80-142), called at main.py:194-195
\* ------------------------------------------------------------------------
\* ok:      extract_info returned info and a non-empty file was found and
\*          renamed; otherwise something inside the try block raised
\* partial: when it raised, a (partial) file had been written to temp_dir
\* size:    byte length of the downloaded file
DownloadTiktok(ok, partial, size) ==
  /\ pc = "idle"
  /\ source' = "tiktok"
  /\ UNCHANGED << blob_size, transferred, removes >>
  /\ UNCHANGED loopVars
  /\ UNCHANGED harnessVars
  /\ UNCHANGED cancelled
  /\ UNCHANGED concVars
  /\ IF ok
     THEN /\ exists_dir' = TRUE
          /\ exists_video' = TRUE
          /\ local_size' = size
          /\ created' = created + 1
          /\ acquired' = TRUE
          /\ pc' = "acquired"
          /\ UNCHANGED << status, cause >>
     ELSE \* except Exception: shutil.rmtree(temp_dir); raise ValueError(...)
          /\ exists_dir' = FALSE
          /\ exists_video' = FALSE
          /\ local_size' = 0
          /\ created' = IF partial THEN created + 1 ELSE created
          /\ UNCHANGED acquired
          /\ Raise("ValueError", "DownloadFailed")

\* ------------------------------------------------------------------------
\* process_video_local (main.py:144-180), called at main.py:197
\* ------------------------------------------------------------------------
\* opened: cap.isOpened().  The test and its raise precede the try/finally.
OpenVideo(opened) ==
  /\ pc = "acquired"
  /\ UNCHANGED << source, blob_size, acquired >>
  /\ UNCHANGED fsVars
  /\ UNCHANGED harnessVars
  /\ UNCHANGED cancelled
  /\ UNCHANGED concVars
  /\ IF ~opened
     THEN /\ Raise("ValueError", "UnreadableVideo")
          /\ UNCHANGED loopVars
     ELSE /\ pc' = "loop"
          /\ height' = FrameHeight
          /\ frame_num' = 0
          /\ last_text' = <<>>
          /\ results' = <<>>
          /\ UNCHANGED << pos, submitted, result_pos, encode_failed, status, cause >>

\* the finally block: cap.release(); remove video_path if it exists
Finally ==
  /\ exists_video' = FALSE
  /\ removes' = IF exists_video THEN removes + 1 ELSE removes
  /\ UNCHANGED << exists_dir, local_size, created, transferred >>

\* ReadEnd with `continue` in place of `break`: the loop reads again
ReadEndContinues ==
  /\ pc = "loop"
  /\ UNCHANGED vars

\* cap.read() returns ret = False: break, finally, return results, jsonify
ReadEnd ==
  /\ pc = "loop"
  /\ Finally
  /\ pc' = "done"
  /\ status' = 200
  /\ cause' = "Completed"
  /\ UNCHANGED << source, blob_size, acquired >>
  /\ UNCHANGED loopVars
  /\ UNCHANGED harnessVars
  /\ UNCHANGED cancelled
  /\ UNCHANGED concVars

\* `frame_num % FRAME_INTERVAL == 0`
IsSampled(n) == n % FRAME_INTERVAL = 0

\* a frame is read and frame_num is not a multiple of the interval
SkipFrame ==
  /\ pc = "loop"
  /\ pos < MaxFrames
  /\ ~IsSampled(frame_num)
  /\ pos' = pos + 1
  /\ frame_num' = frame_num + 1
  /\ UNCHANGED << pc, source, blob_size, acquired, status, cause >>
  /\ UNCHANGED << height, last_text, results, submitted, result_pos, encode_failed >>
  /\ UNCHANGED fsVars
  /\ UNCHANGED harnessVars
  /\ UNCHANGED cancelled
  /\ UNCHANGED concVars

\* a frame is read, cv2.imencode returns success = False: `continue`
EncodeFails ==
  /\ pc = "loop"
  /\ pos < MaxFrames
  /\ IsSampled(frame_num)
  /\ Cardinality(encode_failed) < MaxEncodeFail
  /\ pos' = pos + 1
  /\ encode_failed' = encode_failed \cup {pos}
  /\ UNCHANGED << pc, source, blob_size, acquired, status, cause >>
  /\ UNCHANGED << height, frame_num, last_text, results, submitted, result_pos >>
  /\ UNCHANGED fsVars
  /\ UNCHANGED harnessVars
  /\ UNCHANGED cancelled
  /\ UNCHANGED concVars

\* a frame is read and encoded, vision_client.text_detection raises; kind is
\* "RecognizerTransient" (one frame's call failed) or "RecognizerAuth"
RecognizerRaises(kind) ==
  /\ pc = "loop"
  /\ pos < MaxFrames
  /\ IsSampled(frame_num)
  /\ pos' = pos + 1
  /\ submitted' = submitted \cup {pos}
  /\ Finally
  /\ Raise("Exception", kind)
  /\ UNCHANGED << source, blob_size, acquired >>
  /\ UNCHANGED << height, frame_num, last_text, results, result_pos, encode_failed >>
  /\ UNCHANGED harnessVars
  /\ UNCHANGED cancelled
  /\ UNCHANGED concVars

\* `text.strip() and text != last_text`
Emits(text, last) == Strip(text) # <<>> /\ <<text>> # last

\* RecognizeFrame that appends the caption but forgets `last_text = text`
RecognizeFrameStaleLast(response) ==
  /\ pc = "loop"
  /\ pos < MaxFrames
  /\ IsSampled(frame_num)
  /\ pos' = pos + 1
  /\ submitted' = submitted \cup {pos}
  /\ LET text == clean_text(response, height)
     IN  IF response # <<>> /\ Emits(text, last_text)
         THEN /\ results' = Append(results, text)
              /\ result_pos' = Append(result_pos, pos)
              /\ UNCHANGED last_text
         ELSE UNCHANGED << results, last_text, result_pos >>
  /\ frame_num' = frame_num + 1
  /\ UNCHANGED << pc, source, blob_size, acquired, status, cause >>
  /\ UNCHANGED << height, encode_failed >>
  /\ UNCHANGED fsVars
  /\ UNCHANGED harnessVars
  /\ UNCHANGED cancelled
  /\ UNCHANGED concVars

\* a frame is read, encoded and recognized; the response is reduced
RecognizeFrame(response) ==
  /\ pc = "loop"
  /\ pos < MaxFrames
  /\ IsSampled(frame_num)
  /\ pos' = pos + 1
  /\ submitted' = submitted \cup {pos}
  /\ LET text == clean_text(response, height)
     IN  IF response # <<>> /\ Emits(text, last_text)
         THEN /\ results' = Append(results, text)
              /\ last_text' = <<text>>
              /\ result_pos' = Append(result_pos, pos)
         ELSE UNCHANGED << results, last_text, result_pos >>
  /\ frame_num' = frame_num + 1
  /\ UNCHANGED << pc, source, blob_size, acquired, status, cause >>
  /\ UNCHANGED << height, encode_failed >>
  /\ UNCHANGED fsVars
  /\ UNCHANGED harnessVars
  /\ UNCHANGED cancelled
  /\ UNCHANGED concVars

\* the request context is cancelled while the frame loop runs (the client
\* disconnects or the deadline passes); no statement of main.py reads it
Cancel ==
  /\ pc = "loop"
  /\ ~cancelled
  /\ cancelled' = TRUE
  /\ UNCHANGED << pc, source, blob_size, acquired, status, cause >>
  /\ UNCHANGED fsVars
  /\ UNCHANGED loopVars
  /\ UNCHANGED harnessVars
  /\ UNCHANGED concVars

\* the steps of the request itself
RequestStep ==
  \/ MissingUri
  \/ NonStringUri
  \/ \E uri_ok \in BOOLEAN, reload_ok \in BOOLEAN, size \in GcsSizes,
        transfer \in {"ok", "failed_left", "failed_removed"} :
       DownloadGcs(uri_ok, reload_ok, size, transfer)
  \/ \E ok \in BOOLEAN, partial \in BOOLEAN, size \in TiktokSizes :
       DownloadTiktok(ok, partial, size)
  \/ \E opened \in BOOLEAN : OpenVideo(opened)
  \/ ReadEnd
  \/ SkipFrame
  \/ EncodeFails
  \/ \E kind \in {"RecognizerTransient", "RecognizerAuth"} : RecognizerRaises(kind)
  \/ \E response \in ResponsePool : RecognizeFrame(response)

Next ==
  \/ RequestStep
  \/ Cancel

Spec == Init /\ [][Next]_vars

\* the handler runs on a thread that keeps executing its next statement
SpecFair == Init /\ [][Next]_vars /\ WF_vars(RequestStep)

\* ------------------------------------------------------------------------
\* Harness of the region filter: every (ymin, frame_height) up to MaxH
\* ------------------------------------------------------------------------
InitFilter ==
  /\ RequestIdle
  /\ arg \in [ymin : 0..MaxH, frame_height : 0..MaxH]
  /\ ret = <<>>

ApplyKeep ==
  /\ ret = <<>>
  /\ ret' = <<keep(arg.ymin, arg.frame_height)>>
  /\ UNCHANGED << pc, source, blob_size, acquired, status, cause, arg >>
  /\ UNCHANGED fsVars
  /\ UNCHANGED loopVars
  /\ UNCHANGED cancelled
  /\ UNCHANGED concVars

SpecFilter == InitFilter /\ [][ApplyKeep]_vars

\* ------------------------------------------------------------------------
\* Harness of the reduction: every response of up to MaxParas paragraphs
\* ------------------------------------------------------------------------
InitReduce ==
  /\ RequestIdle
  /\ arg \in SeqsUpTo(ParagraphPool, MaxParas)
  /\ ret = <<>>

ApplyCleanText ==
  /\ ret = <<>>
  /\ ret' = << [ words |-> SurvivingLines(arg, FrameHeight),
                 text  |-> clean_text(arg, FrameHeight) ] >>
  /\ UNCHANGED << pc, source, blob_size, acquired, status, cause, arg >>
  /\ UNCHANGED fsVars
  /\ UNCHANGED loopVars
  /\ UNCHANGED cancelled
  /\ UNCHANGED concVars

SpecReduce == InitReduce /\ [][ApplyCleanText]_vars

\* ------------------------------------------------------------------------
\* Harness of the per-word region filter: a paragraph of two words at every
\* pair of heights up to MaxH, in a frame of every height up to MaxH
\* ------------------------------------------------------------------------
InitParagraph ==
  /\ RequestIdle
  /\ arg \in { [ frame_height |-> h,
                 para |-> << Word(wHi, {y1, y1 + 2}), Word(wJo, {y2 + 1, y2}) >> ] :
               h \in 0..MaxH, y1 \in 0..MaxH, y2 \in 0..MaxH }
  /\ ret = <<>>

ApplyProducedLines ==
  /\ ret = <<>>
  /\ ret' = << ProducedLines(<<arg.para>>, arg.frame_height) >>
  /\ UNCHANGED << pc, source, blob_size, acquired, status, cause, arg >>
  /\ UNCHANGED fsVars
  /\ UNCHANGED loopVars
  /\ UNCHANGED cancelled
  /\ UNCHANGED concVars

SpecParagraph == InitParagraph /\ [][ApplyProducedLines]_vars

\* ------------------------------------------------------------------------
\* Concurrent requests: each request runs run_video_ocr on its own thread;
\* they share the temporary directory of the file system
\* ------------------------------------------------------------------------
\* FreshPaths that hands out any name, existing or not
FreshPathsAnyName == PathNames

\* the names tempfile.NamedTemporaryFile (main.py:75) and tempfile.mkdtemp
\* (main.py:86) can return: both create the entry exclusively, so never a
\* name that exists
FreshPaths == PathNames \ files

\* the responses the recognizer returns to the concurrent requests
ConcResponsePool ==
  { <<>>,
    << << Word(wHi, MidY), Word(wJo, MidY) >> >>,
    << << Word(wHiCap, MidY), Word(wJo, MidY) >> >> }

singleVars == << pc, source, blob_size, acquired, status, cause, cancelled >>

\* request r acquires its video under the new name p (for an external
\* platform URL p is the new directory that holds the file).
\* ok:   the acquirer returns video_path
\* left: it raised and the file stays behind (a failed cloud transfer);
\*       otherwise the entry was never made or was removed (rmtree)
ConcAcquire(r, p, ok, left) ==
  /\ rpc[r] = "idle"
  /\ p \in FreshPaths
  /\ IF ok
     THEN /\ files' = files \cup {p}
          /\ rpath' = [rpath EXCEPT ![r] = p]
          /\ rpc' = [rpc EXCEPT ![r] = "acquired"]
     ELSE /\ files' = IF left THEN files \cup {p} ELSE files
          /\ rpc' = [rpc EXCEPT ![r] = "failed"]
          /\ UNCHANGED rpath
  /\ UNCHANGED rstate
  /\ UNCHANGED singleVars
  /\ UNCHANGED fsVars
  /\ UNCHANGED loopVars
  /\ UNCHANGED harnessVars

\* process_video_local of request r up to the loop (main.py:146-153)
ConcOpen(r, opened) ==
  /\ rpc[r] = "acquired"
  /\ IF opened
     THEN /\ rpc' = [rpc EXCEPT ![r] = "loop"]
          /\ rstate' = [rstate EXCEPT ![r] = FreshLocals]
     ELSE /\ rpc' = [rpc EXCEPT ![r] = "failed"]
          /\ UNCHANGED rstate
  /\ UNCHANGED << files, rpath >>
  /\ UNCHANGED singleVars
  /\ UNCHANGED fsVars
  /\ UNCHANGED loopVars
  /\ UNCHANGED harnessVars

\* one iteration of the loop of request r on a frame that is not sampled
ConcSkipFrame(r) ==
  /\ rpc[r] = "loop"
  /\ rstate[r].frame_num < MaxConcFrames
  /\ ~IsSampled(rstate[r].frame_num)
  /\ rstate' = [rstate EXCEPT ![r].frame_num = @ + 1]
  /\ UNCHANGED << files, rpc, rpath >>
  /\ UNCHANGED singleVars
  /\ UNCHANGED fsVars
  /\ UNCHANGED loopVars
  /\ UNCHANGED harnessVars

\* one iteration of the loop of request r on a sampled frame (main.py:161-174)
ConcRecognizeFrame(r, response) ==
  /\ rpc[r] = "loop"
  /\ rstate[r].frame_num < MaxConcFrames
  /\ IsSampled(rstate[r].frame_num)
  /\ LET text == clean_text(response, FrameHeight)
         emit == response # <<>> /\ Emits(text, rstate[r].last_text)
     IN  rstate' = [rstate EXCEPT ![r] =
           [ frame_num |-> @.frame_num + 1,
             last_text |-> IF emit THEN <<text>> ELSE @.last_text,
             results   |-> IF emit THEN Append(@.results, text) ELSE @.results ]]
  /\ UNCHANGED << files, rpc, rpath >>
  /\ UNCHANGED singleVars
  /\ UNCHANGED fsVars
  /\ UNCHANGED loopVars
  /\ UNCHANGED harnessVars

\* the loop of request r ends: by ret = False (ok) or by an exception of
\* text_detection; the finally block removes video_path (main.py:175-178)
ConcLeaveLoop(r, ok) ==
  /\ rpc[r] = "loop"
  /\ files' = files \ {rpath[r]}
  /\ rpc' = [rpc EXCEPT ![r] = IF ok THEN "done" ELSE "failed"]
  /\ UNCHANGED << rpath, rstate >>
  /\ UNCHANGED singleVars
  /\ UNCHANGED fsVars
  /\ UNCHANGED loopVars
  /\ UNCHANGED harnessVars

NextConc ==
  \E r \in Requests :
    \/ \E p \in PathNames, ok \in BOOLEAN, left \in BOOLEAN : ConcAcquire(r, p, ok, left)
    \/ \E opened \in BOOLEAN : ConcOpen(r, opened)
    \/ ConcSkipFrame(r)
    \/ \E response \in ConcResponsePool : ConcRecognizeFrame(r, response)
    \/ \E ok \in BOOLEAN : ConcLeaveLoop(r, ok)

SpecConc == Init /\ [][NextConc]_vars

\* ========================================================================
\* Properties
\* ========================================================================

\* C1: every terminal state (Done or Failed) of a request that acquired a
\* local video file has the file removed, by exactly one removal.
C1_TempFileRemovedOnEveryExit ==
  (acquired /\ pc \in {"done", "failed"}) => (~exists_video /\ removes = 1)

\* C2: no two consecutive captions of the output have the same normalized
\* content (lower-cased, spaces removed).
C2_NoConsecutiveEqualNormalized ==
  \A i \in 1..(Len(results) - 1) : Norm(results[i]) # Norm(results[i + 1])

\* C3 as stated: the region filter excludes a word iff y < 0.15*H or
\* y > 0.85*H.
C3_ExcludedOutside15To85 ==
  ret # <<>> =>
    (~ret[1] <=> (100 * arg.ymin < 15 * arg.frame_height
                  \/ 100 * arg.ymin > 85 * arg.frame_height))

\* C3 amended: the region filter excludes a word iff y < 0.15*H or
\* y > 0.75*H, in exact arithmetic; a word at exactly 0.15*H or 0.75*H is
\* kept.
C3_ExcludedOutside15To75 ==
  ret # <<>> =>
    (~ret[1] <=> (100 * arg.ymin < 15 * arg.frame_height
                  \/ 100 * arg.ymin > 75 * arg.frame_height))

\* a word exactly on the lower edge 0.75*H of the kept region was kept
C3_KeptOnBottomEdge ==
  /\ ret = <<TRUE>>
  /\ arg.frame_height = 40
  /\ arg.ymin = 30

\* C4: a cloud object whose reported size is unknown fails as SizeUnknown,
\* one whose size exceeds MAX_VIDEO_SIZE fails as TooLarge; no byte was
\* transferred and no local file was created or exists.
C4_RejectedBeforeTransfer ==
  (blob_size # <<>> /\ (blob_size[1] = NoneSize \/ blob_size[1] > MAX_VIDEO_SIZE)) =>
    /\ pc = "failed"
    /\ cause = (IF blob_size[1] = NoneSize THEN "SizeUnknown" ELSE "TooLarge")
    /\ transferred = 0
    /\ created = 0
    /\ ~exists_video

\* a 600 MiB object was rejected
C4_Rejected600MiB ==
  /\ blob_size = <<600 * 1024 * 1024>>
  /\ pc = "failed"
  /\ cause = "TooLarge"

\* C5: when the acquirer fails after it created a local file, that file no
\* longer exists once the error is returned.
C5_NoPartialFileAfterFailedAcquire ==
  (pc = "failed" /\ ~acquired /\ created > 0) => ~exists_video

\* C6: an external-platform acquisition never hands a local file larger than
\* MAX_VIDEO_SIZE to the frame loop.
C6_ExternalFileWithinMaxSize ==
  (source = "tiktok" /\ pc \in {"acquired", "loop"}) => local_size <= MAX_VIDEO_SIZE

\* C7: a recognizer failure on one sampled frame that is not of the
\* authentication class never ends the request in Failed.
C7_TransientRecognizerFailureSkipped ==
  ~(pc = "failed" /\ cause = "RecognizerTransient")

\* C8: the frames submitted to the recognizer are exactly the frames read so
\* far whose decode position is a multiple of the stride and whose encoding
\* succeeded.
C8_SubmittedExactlyStrideMultiples ==
  submitted = {p \in 0..(pos - 1) : p % FRAME_INTERVAL = 0 /\ p \notin encode_failed}

\* "begins with '@' followed by word characters", said of the line itself
BeginsWithUsername(line) == Len(line) >= 2 /\ line[1] = "@" /\ IsWordChar(line[2])

\* the case/space-insensitive form of the line contains a blocklist phrase
ContainsBlocklistPhrase(line) ==
  \E b \in 1..Len(UNWANTED) : Contains(Norm(UNWANTED[b]), Norm(line))

C9_SurvivesAsStated(line) ==
  ~(ContainsBlocklistPhrase(line) \/ BeginsWithUsername(line))

C9_SurvivesAsAmended(line) ==
  ~(ContainsBlocklistPhrase(line) \/ BeginsWithUsername(Norm(line)))

\* C9 as stated: a produced line is dropped iff its case/space-insensitive
\* form contains a blocklist phrase or the line begins with '@' followed by
\* word characters.
C9_DroppedIffBlockedOrUsername ==
  ret # <<>> =>
    ret[1].words = SelectSeq(ProducedLines(arg, FrameHeight), C9_SurvivesAsStated)

\* C9 amended: a produced line is dropped iff its case/space-insensitive form
\* contains a blocklist phrase or that same form (lower-cased, spaces
\* removed) begins with '@' followed by word characters; every other line
\* reaches the dedup step.
C9_DroppedIffBlockedOrNormUsername ==
  ret # <<>> =>
    ret[1].words = SelectSeq(ProducedLines(arg, FrameHeight), C9_SurvivesAsAmended)

\* the lines "@jo", "hi jo", "hi jo" were reduced to exactly "hi jo"
C9_UsernameAndRepeatDropped ==
  /\ arg = << << Word(wAtJo, MidY) >>,
              << Word(wHi, MidY), Word(wJo, MidY) >>,
              << Word(wHi, MidY), Word(wJo, MidY) >> >>
  /\ ret # <<>>
  /\ ret[1].words = << <<"h","i"," ","j","o">>, <<"h","i"," ","j","o">> >>
  /\ ret[1].text = <<"h","i"," ","j","o">>

\* the class the error taxonomy gives to a cause: 400 client, 500 server
TaxonomyStatus(c) ==
  IF c \in {"InvalidReference", "TooLarge", "SizeUnknown", "DownloadFailed",
            "UnreadableVideo"}
  THEN 400 ELSE 500

EmittedInStep == Len(results') = Len(results) + 1

\* C13: a frame whose caption is empty after trimming, or has the normalized
\* form of the previously emitted caption, or has no text-layout result,
\* emits nothing; a step that emits therefore appends a non-blank caption
\* whose normalized form differs from the last emitted one, and only an
\* emitting step changes the last-emitted state.
C13_EmitsOnlyNewNormalizedCaption ==
  [][ /\ EmittedInStep =>
           /\ Strip(results'[Len(results')]) # <<>>
           /\ last_text # <<>> =>
                Norm(results'[Len(results')]) # Norm(last_text[1])
      /\ last_text' # last_text => EmittedInStep ]_vars

\* the lines of w whose normalized form did not occur earlier in w, in order
RECURSIVE FirstOccurrences(_, _)
FirstOccurrences(w, i) ==
  IF i > Len(w) THEN <<>>
  ELSE IF \A j \in 1..(i - 1) : Norm(w[j]) # Norm(w[i])
       THEN <<w[i]>> \o FirstOccurrences(w, i + 1)
       ELSE FirstOccurrences(w, i + 1)

\* C14: the caption of a frame is its surviving lines with every line whose
\* normalized form occurred earlier dropped, in their original order, joined
\* with single spaces.
C14_FirstOccurrencesJoined ==
  ret # <<>> => ret[1].text = JoinSpace(FirstOccurrences(ret[1].words, 1))

\* "hi jo", "Hi jo", "jo @jo" were reduced to "hi jo jo @jo"
C14_CaseVariantDropped ==
  /\ arg = << << Word(wHi, MidY), Word(wJo, MidY) >>,
              << Word(wHiCap, MidY), Word(wJo, MidY) >>,
              << Word(wJo, MidY), Word(wAtJo, MidY) >> >>
  /\ ret # <<>>
  /\ Len(ret[1].words) = 3
  /\ ret[1].text = <<"h","i"," ","j","o"," ","j","o"," ","@","j","o">>

\* C16: no frame is decoded and no recognizer call is made before the
\* acquirer has returned a video path; a request whose acquisition failed is
\* Failed with neither; every recognizer call and every emitted caption
\* belongs to a frame already read.
C16_AcquireThenSampleInOrder ==
  /\ (pos > 0 \/ submitted # {}) => acquired
  /\ pc \in {"acquired", "loop", "done"} => acquired
  /\ (pc = "failed" /\ ~acquired) => (pos = 0 /\ submitted = {} /\ results = <<>>)
  /\ submitted \subseteq 0..(pos - 1)
  /\ \A i \in 1..Len(result_pos) : result_pos[i] \in submitted

\* a cloud acquisition failed and the request is Failed with no frame read
C16_FailedAcquisitionNoFrames ==
  /\ pc = "failed"
  /\ source = "gcs"
  /\ ~acquired
  /\ cause = "TooLarge"
  /\ pos = 0

\* last_text is None exactly when nothing was emitted, else the last caption
LastTextAgrees ==
  /\ last_text = <<>> <=> results = <<>>
  /\ results # <<>> => last_text = <<results[Len(results)]>>

\* results only grows at its end
AppendOnly ==
  \/ results' = results
  \/ /\ Len(results') = Len(results) + 1
     /\ SubSeq(results', 1, Len(results)) = results

\* C18: the last-emitted state always agrees with the accumulated output,
\* and captions are only ever appended.
C18_LastTextTracksResults == [](LastTextAgrees) /\ [][AppendOnly]_vars

\* two captions were emitted and last_text is the second
C18_TwoCaptionsEmitted ==
  /\ pc = "loop"
  /\ Len(results) = 2
  /\ last_text = <<results[2]>>

\* C19: once a request has completed (Done or Failed), neither the video
\* file nor the temporary directory made for it exists.
C19_NoEntryLeftAfterRequest ==
  pc \in {"done", "failed"} => (~exists_video /\ ~exists_dir)

\* the topmost y of a word lies in neither default band: not above 15% of
\* the frame height and not below 75% of it, in exact arithmetic
OutsideBands(word, frame_height) ==
  LET y == CHOOSE v \in word.vertices : \A u \in word.vertices : v <= u
  IN  ~(100 * y < 15 * frame_height \/ 100 * y > 75 * frame_height)

\* C15: the region filter is applied word by word before the join: the line
\* of a paragraph is made of exactly its words outside the top 15% and
\* bottom 25% bands, and a paragraph with no such word gives no line.
C15_LineOfWordsOutsideBands ==
  ret # <<>> =>
    LET k1 == OutsideBands(arg.para[1], arg.frame_height)
        k2 == OutsideBands(arg.para[2], arg.frame_height)
    IN  ret[1] = IF k1 /\ k2 THEN << arg.para[1].text \o <<" ">> \o arg.para[2].text >>
                 ELSE IF k1 THEN << arg.para[1].text >>
                 ELSE IF k2 THEN << arg.para[2].text >>
                 ELSE <<>>

\* in a frame of height 40 the word at y = 31 (bottom band) was left out
\* and the word at y = 30 (on the edge) made the line
C15_OneWordOfTwoKept ==
  /\ arg.frame_height = 40
  /\ arg.para[1].vertices = {31, 33}
  /\ arg.para[2].vertices = {30, 31}
  /\ ret = << << <<"j","o">> >> >>

\* C12: once the request is cancelled during the frame loop, no further
\* frame is read and no further recognizer call is made.
C12_NoFrameAfterCancel ==
  [][cancelled => (pos' = pos /\ submitted' = submitted)]_vars

\* C17: every request eventually reaches Done or Failed.
C17_RequestTerminates == <>(pc \in {"done", "failed"})

\* a run with an encode failure and a frame without text reached Done
C17_DoneAfterEncodeFailure ==
  /\ pc = "done"
  /\ encode_failed # {}
  /\ Cardinality(submitted) >= 2
  /\ results = <<>>

\* request r holds a video path it has not yet cleaned up
InFlight(r) == rpc[r] \in {"acquired", "loop"}

\* the file of every in-flight request exists, under a path of its own
OwnPathEach ==
  \A r \in Requests :
    InFlight(r) =>
      /\ rpath[r] \in files
      /\ \A s \in Requests \ {r} : InFlight(s) => rpath[s] # rpath[r]

\* a step of one request leaves the position, path and locals of every
\* other request as they were
OthersUntouched ==
  \A r \in Requests :
    (rpc'[r] # rpc[r] \/ rpath'[r] # rpath[r] \/ rstate'[r] # rstate[r]) =>
      \A s \in Requests \ {r} :
        rpc'[s] = rpc[s] /\ rpath'[s] = rpath[s] /\ rstate'[s] = rstate[s]

\* C11: concurrent requests never share a temporary video path, each has its
\* own frame index, last-emitted caption and results, and the cleanup of one
\* never removes the file or changes the state of another in-flight request.
C11_RequestsIsolated == [](OwnPathEach) /\ [][OthersUntouched]_vars

\* request 1 has finished and removed its file while request 2, which emitted
\* a caption, is still in its loop with its file in place
C11_OneDoneOtherInLoop ==
  /\ rpc[1] = "done"
  /\ rpath[1] \notin files
  /\ rpc[2] = "loop"
  /\ rpath[2] \in files
  /\ rstate[2].results # <<>>
  /\ rstate[1].results # rstate[2].results

====
